---------------------------- MODULE Spec2Model ----------------------------
(***************************************************************************)
(* A model of the SauceDemo page-object framework: the configuration       *)
(* accessor (framework/config.py) and the page objects built on BasePage   *)
(* (framework/pages).  Strings whose characters matter are sequences of    *)
(* one-character strings.                                                  *)
(***************************************************************************)
EXTENDS Integers, Sequences, FiniteSets, TLC

(***************************************************************************)
(* Bounds of the model.                                                    *)
(***************************************************************************)
MaxCalls == 3
MaxNameLen == 3
MaxItems == 3
MaxCartItems == 3
MaxAlertCalls == 3
MaxDialogs == 3

VARIABLES
    \* ---- framework/config.py
    environ,      \* os.environ, as far as Config reads it
    _config,      \* the module global _config
    dirs,         \* directories that exist on the file system
    blocked,      \* directories whose creation fails (permissions, a file in the way)
    pc,           \* pc[w]: where worker w stands in its call
    call,         \* call[w]: the function worker w called and its argument
    out,          \* out[w]: how worker w's last call ended
    constructed,  \* number of Config objects constructed so far
    envReads,     \* number of times Config() resolved the environment
    returned,     \* ids of the Config objects get_config has returned
    calls,        \* number of calls started
    \* ---- framework/pages: one page object on one browser page
    dom,          \* the rendered page: selector -> element (delay until visible, text)
    ptimeout,     \* self.timeout of the page object (config.timeout)
    pcall,        \* the page-object call under way and its step
    pout,         \* how the last page-object call ended
    pchanged,     \* the page was changed from outside since the call began
    \* ---- the add/remove controls of the inventory and cart pages
    product,      \* the name of the product the test is about
    controls,     \* data-test values of the controls the page shows for it
    idOut,        \* how the last call that derived a control identifier ended
    \* ---- the product list of the inventory page
    items,        \* the displayed products in page order: name and price text
    sortedBy,     \* the option the sort dropdown was last set to
    sortOut,      \* how the last call on the product list ended
    \* ---- the line items of the cart page
    cartPrices,      \* the texts of the price nodes, in page order
    cartQuantities,  \* the texts of the quantity nodes, in page order
    cartOut,         \* how the last call on the line items ended
    \* ---- the calls BasePage and LoginPage make on the browser
    actConfig,    \* self.config of the page object
    actDom,       \* the page: selector (or load state) -> delay until visible (reached)
    actCall,      \* the call under way: the primitive calls still to make, the step
    actLog,       \* what the call under way (or the last call) asked of the browser
    actOut,       \* how the last call ended
    \* ---- native dialogs of the browser page
    handlers,     \* number of "dialog" listeners accept_alert has registered
    dialogs,      \* the dialogs that appeared, in order, and what happened to each
    \* ---- the item names of the cart page
    cartNames,    \* the texts of the item name nodes, in page order
    namesOut,     \* the last call of get_cart_item_names: its result, the page it
                  \* saw, whether the page had changed since the call before
    namesPrev,    \* the call before it
    namesMutated  \* the page was changed since the last call

configVars == <<environ, _config, dirs, blocked, pc, call, out, constructed,
                envReads, returned, calls>>

pageVars == <<dom, ptimeout, pcall, pout, pchanged>>

idVars == <<product, controls, idOut>>

sortVars == <<items, sortedBy, sortOut>>

cartVars == <<cartPrices, cartQuantities, cartOut>>

actVars == <<actConfig, actDom, actCall, actLog, actOut>>

dialogVars == <<handlers, dialogs>>

namesVars == <<cartNames, namesOut, namesPrev, namesMutated>>

vars == <<configVars, pageVars, idVars, sortVars, cartVars, actVars, dialogVars, namesVars>>

\* What the steps of one part of the program leave alone.
notConfig == <<pageVars, idVars, sortVars, cartVars, actVars, dialogVars, namesVars>>
notPage == <<configVars, idVars, sortVars, cartVars, actVars, dialogVars, namesVars>>
notId == <<configVars, pageVars, sortVars, cartVars, actVars, dialogVars, namesVars>>
notSort == <<configVars, pageVars, idVars, cartVars, actVars, dialogVars, namesVars>>
notCart == <<configVars, pageVars, idVars, sortVars, actVars, dialogVars, namesVars>>
notAct == <<configVars, pageVars, idVars, sortVars, cartVars, dialogVars, namesVars>>
notDialog == <<configVars, pageVars, idVars, sortVars, cartVars, actVars, namesVars>>
notNames == <<configVars, pageVars, idVars, sortVars, cartVars, actVars, dialogVars>>

(***************************************************************************)
(* framework/config.py                                                     *)
(***************************************************************************)
\* The test workers of one process.
Workers == {"w1", "w2"}

\* The value of the global before the first construction.
None == [id |-> 0]

\* The environment values the model draws from: nothing set (the defaults
\* apply), the credentials and the timeout overridden, and a TIMEOUT that
\* is no integer (pydantic refuses it).
EnvValues ==
    { [STANDARD_USER |-> "unset", STANDARD_PASSWORD |-> "unset", TIMEOUT |-> "unset"],
      [STANDARD_USER |-> "alt_user", STANDARD_PASSWORD |-> "alt_sauce", TIMEOUT |-> "1000"],
      [STANDARD_USER |-> "unset", STANDARD_PASSWORD |-> "unset", TIMEOUT |-> "abc"] }

\* Field(default=..., env=...): the environment's value, else the default.
Field(default, value) == IF value = "unset" THEN default ELSE value

\* The int field timeout accepts decimal text only.
TimeoutValid(e) == e.TIMEOUT \in {"unset", "1000"}

TimeoutOf(e) == IF e.TIMEOUT = "1000" THEN 1000 ELSE 30000

\* Config(): the settings object resolved from environment e, as instance n.
Config(e, n) ==
    [ id                |-> n,
      standard_user     |-> Field("standard_user", e.STANDARD_USER),
      standard_password |-> Field("secret_sauce", e.STANDARD_PASSWORD),
      locked_user       |-> "locked_out_user",
      problem_user      |-> "problem_user",
      performance_user  |-> "performance_glitch_user",
      timeout           |-> TimeoutOf(e),
      allure_results_dir |-> "reports/allure-results",
      screenshots_dir   |-> "reports/screenshots",
      videos_dir        |-> "reports/videos",
      html_report_path  |-> "reports/report.html" ]

Paths == {"reports", "reports/allure-results", "reports/screenshots", "reports/videos"}

\* os.path.dirname of the paths the model uses.
Dirname(p) == IF p = "reports" THEN "" ELSE "reports"

\* os.makedirs(p, exist_ok=True): the missing ancestors are made first, then p;
\* the first directory that cannot be made raises and the ones made stay.
MakedirsOk(p, d, b) ==
    \/ p \in d
    \/ /\ p \notin b
       /\ Dirname(p) = "" \/ Dirname(p) \in d \/ Dirname(p) \notin b

MakedirsDirs(p, d, b) ==
    IF p \in d THEN d
    ELSE LET withParent == IF Dirname(p) # "" /\ Dirname(p) \notin d /\ Dirname(p) \notin b
                           THEN d \cup {Dirname(p)} ELSE d
         IN  IF MakedirsOk(p, d, b) THEN withParent \cup {p} ELSE withParent

NoCall == [fn |-> "none", user_type |-> "none"]
NoOut == [kind |-> "none", fn |-> "none", user_type |-> "none", cfg |-> None,
          cred |-> <<>>, exc |-> "none"]

\* The categories callers pass: the four known ones and an unknown one.
UserTypes == {"standard", "locked", "problem", "performance", "admin"}

\* credentials_map with a password of its own for the locked user.
credentials_map_OwnPassword(c) ==
    [ standard    |-> [username |-> c.standard_user, password |-> c.standard_password],
      locked      |-> [username |-> c.locked_user, password |-> "locked_sauce"],
      problem     |-> [username |-> c.problem_user, password |-> c.standard_password],
      performance |-> [username |-> c.performance_user, password |-> c.standard_password] ]

\* credentials_map of get_user_credentials, built from config object c.
credentials_map(c) ==
    [ standard    |-> [username |-> c.standard_user, password |-> c.standard_password],
      locked      |-> [username |-> c.locked_user, password |-> c.standard_password],
      problem     |-> [username |-> c.problem_user, password |-> c.standard_password],
      performance |-> [username |-> c.performance_user, password |-> c.standard_password] ]

\* credentials_map[user_type]: an unknown category raises KeyError.
LookupCredentials_Index(c, user_type) ==
    IF user_type \in DOMAIN credentials_map(c)
    THEN [kind |-> "ret", cred |-> credentials_map(c)[user_type], exc |-> "none"]
    ELSE [kind |-> "raise", cred |-> <<>>, exc |-> "KeyError"]

\* credentials_map.get(user_type, credentials_map["standard"])
LookupCredentials(c, user_type) ==
    IF user_type \in DOMAIN credentials_map(c)
    THEN [kind |-> "ret", cred |-> credentials_map(c)[user_type], exc |-> "none"]
    ELSE [kind |-> "ret", cred |-> credentials_map(c)["standard"], exc |-> "none"]

\* The directories a Config's path fields refer to.
ConfigDirs(c) == {c.allure_results_dir, c.screenshots_dir, c.videos_dir,
                  Dirname(c.html_report_path)}

InitConfig ==
    /\ environ \in EnvValues
    /\ _config = None
    /\ dirs \in {{}, {"reports"}, Paths}
    /\ blocked \in SUBSET (Paths \ dirs)
    /\ pc = [w \in Workers |-> "idle"]
    /\ call = [w \in Workers |-> NoCall]
    /\ out = [w \in Workers |-> NoOut]
    /\ constructed = 0
    /\ envReads = 0
    /\ returned = {}
    /\ calls = 0

\* A test sets an environment variable (os.environ is process state).
SetEnv ==
    /\ \E e \in EnvValues : e # environ /\ environ' = e
    /\ UNCHANGED <<_config, dirs, blocked, pc, call, out, constructed, envReads,
                   returned, calls>>
    /\ UNCHANGED notConfig

\* The operator repairs the file system: a blocked directory becomes creatable.
FsUnblock ==
    /\ \E p \in blocked : blocked' = blocked \ {p}
    /\ UNCHANGED <<environ, _config, dirs, pc, call, out, constructed, envReads,
                   returned, calls>>
    /\ UNCHANGED notConfig

\* Worker w calls get_config() or get_user_credentials(user_type).
BeginCall(w) ==
    /\ pc[w] = "idle"
    /\ calls < MaxCalls
    /\ \E c \in {[fn |-> "get_config", user_type |-> "none"]}
              \cup {[fn |-> "get_user_credentials", user_type |-> u] : u \in UserTypes} :
           call' = [call EXCEPT ![w] = c]
    /\ pc' = [pc EXCEPT ![w] = "check"]
    /\ out' = [out EXCEPT ![w] = NoOut]
    /\ calls' = calls + 1
    /\ UNCHANGED <<environ, _config, dirs, blocked, constructed, envReads, returned>>
    /\ UNCHANGED notConfig

\* get_config without the test of the global: every call constructs.
CheckNone_Always(w) ==
    /\ pc[w] = "check"
    /\ pc' = [pc EXCEPT ![w] = "construct"]
    /\ UNCHANGED <<environ, _config, dirs, blocked, call, out, constructed, envReads,
                   returned, calls>>
    /\ UNCHANGED notConfig

\* if _config is None:
CheckNone(w) ==
    /\ pc[w] = "check"
    /\ pc' = [pc EXCEPT ![w] = IF _config = None THEN "construct" ELSE "ret"]
    /\ UNCHANGED <<environ, _config, dirs, blocked, call, out, constructed, envReads,
                   returned, calls>>
    /\ UNCHANGED notConfig

Raise(w, e) ==
    /\ pc' = [pc EXCEPT ![w] = "idle"]
    /\ out' = [out EXCEPT ![w] = [kind |-> "raise", fn |-> call[w].fn,
                                    user_type |-> call[w].user_type, cfg |-> None,
                                    cred |-> <<>>, exc |-> e]]
    /\ call' = [call EXCEPT ![w] = NoCall]

\* _config = Config()
Construct(w) ==
    /\ pc[w] = "construct"
    /\ envReads' = envReads + 1
    /\ IF TimeoutValid(environ)
       THEN /\ constructed' = constructed + 1
            /\ _config' = Config(environ, constructed + 1)
            /\ pc' = [pc EXCEPT ![w] = "mk_allure"]
            /\ UNCHANGED <<out, call>>
       ELSE /\ Raise(w, "ValidationError")
            /\ UNCHANGED <<constructed, _config>>
    /\ UNCHANGED <<environ, dirs, blocked, returned, calls>>
    /\ UNCHANGED notConfig

\* One os.makedirs(path, exist_ok=True) of get_config, at step here.
Makedirs(w, here, path, next) ==
    /\ pc[w] = here
    /\ dirs' = MakedirsDirs(path, dirs, blocked)
    /\ IF MakedirsOk(path, dirs, blocked)
       THEN pc' = [pc EXCEPT ![w] = next] /\ UNCHANGED <<out, call>>
       ELSE Raise(w, "OSError")
    /\ UNCHANGED <<environ, _config, blocked, constructed, envReads, returned, calls>>
    /\ UNCHANGED notConfig

MakeAllure(w) == Makedirs(w, "mk_allure", _config.allure_results_dir, "mk_screenshots")
MakeScreenshots(w) == Makedirs(w, "mk_screenshots", _config.screenshots_dir, "mk_videos")
MakeVideos(w) == Makedirs(w, "mk_videos", _config.videos_dir, "mk_html")
MakeHtmlParent(w) == Makedirs(w, "mk_html", Dirname(_config.html_report_path), "ret")

\* return _config; for get_user_credentials the lookup follows.
Return(w) ==
    /\ pc[w] = "ret"
    /\ pc' = [pc EXCEPT ![w] = "idle"]
    /\ returned' = returned \cup {_config.id}
    /\ LET r == IF call[w].fn = "get_config"
                THEN [kind |-> "ret", cred |-> <<>>, exc |-> "none"]
                ELSE LookupCredentials(_config, call[w].user_type)
       IN  out' = [out EXCEPT ![w] = [kind |-> r.kind, fn |-> call[w].fn,
                                      user_type |-> call[w].user_type, cfg |-> _config,
                                      cred |-> r.cred, exc |-> r.exc]]
    /\ call' = [call EXCEPT ![w] = NoCall]
    /\ UNCHANGED <<environ, _config, dirs, blocked, constructed, envReads, calls>>
    /\ UNCHANGED notConfig

\* Calls made one after the other: a call begins when no other is under way.
BeginCallSeq(w) ==
    /\ \A v \in Workers : pc[v] = "idle"
    /\ BeginCall(w)

\* Calls made by the threads of one process at any time: get_config takes
\* no lock, so a call can begin while another is under way.
BeginCallThread(w) ==
    /\ BeginCall(w)
    /\ call'[w].fn = "get_config"

NextConfigThreads ==
    \E w \in Workers :
        \/ BeginCallThread(w)
        \/ CheckNone(w)
        \/ Construct(w)
        \/ MakeAllure(w)
        \/ MakeScreenshots(w)
        \/ MakeVideos(w)
        \/ MakeHtmlParent(w)
        \/ Return(w)

NextConfig ==
    \/ SetEnv
    \/ FsUnblock
    \/ \E w \in Workers :
          \/ BeginCallSeq(w)
          \/ CheckNone(w)
          \/ Construct(w)
          \/ MakeAllure(w)
          \/ MakeScreenshots(w)
          \/ MakeVideos(w)
          \/ MakeHtmlParent(w)
          \/ Return(w)

(***************************************************************************)
(* Text read from the page: sequences of characters.  "sup2" stands for    *)
(* the one character SUPERSCRIPT TWO.                                      *)
(***************************************************************************)
DecimalDigits == {"0", "1", "2", "3", "4", "5", "6", "7", "8", "9"}

\* The text of a node that has none (text_content() returns None).
NoText == <<"None">>

\* element.text_content() or ""
TextOrEmpty(t) == IF t = NoText THEN <<>> ELSE t

\* str.isdigit(): not empty and every character a digit; the superscript
\* digits count as digits.
IsDigit(t) == Len(t) > 0 /\ \A i \in 1..Len(t) : t[i] \in DecimalDigits \cup {"sup2"}

DigitValue(c) ==
    CASE c = "0" -> 0 [] c = "1" -> 1 [] c = "2" -> 2 [] c = "3" -> 3 [] c = "4" -> 4
      [] c = "5" -> 5 [] c = "6" -> 6 [] c = "7" -> 7 [] c = "8" -> 8 [] c = "9" -> 9

\* str.strip() for the blank.
RECURSIVE LStrip(_)
LStrip(t) == IF Len(t) > 0 /\ Head(t) = " " THEN LStrip(Tail(t)) ELSE t

RECURSIVE RStrip(_)
RStrip(t) == IF Len(t) > 0 /\ t[Len(t)] = " " THEN RStrip(SubSeq(t, 1, Len(t) - 1)) ELSE t

Strip(t) == RStrip(LStrip(t))

\* The digits of a decimal literal after its sign.
Unsigned(t) == IF Len(t) > 0 /\ Head(t) \in {"+", "-"} THEN Tail(t) ELSE t

RECURSIVE DecimalValue(_)
DecimalValue(t) ==
    IF Len(t) = 0 THEN 0
    ELSE 10 * DecimalValue(SubSeq(t, 1, Len(t) - 1)) + DigitValue(t[Len(t)])

\* int(text) succeeds: blanks around an optionally signed run of decimal digits.
IntParses(t) ==
    LET u == Unsigned(Strip(t))
    IN  Len(u) > 0 /\ \A i \in 1..Len(u) : u[i] \in DecimalDigits

\* int(text) where it succeeds.
IntValue(t) ==
    LET b == Strip(t)
        v == DecimalValue(Unsigned(b))
    IN  IF Len(b) > 0 /\ Head(b) = "-" THEN 0 - v ELSE v

(***************************************************************************)
(* The browser page, as the page objects see it (playwright's Page).       *)
(***************************************************************************)
ERROR_MESSAGE == ".error-message-container"
INVENTORY_BADGE == ".shopping_cart_badge"
CART_BADGE == "[data-test=shopping-cart-badge]"

\* Selectors with an element the page may show.
PageSelectors == {ERROR_MESSAGE, INVENTORY_BADGE, CART_BADGE}

\* Selectors callers pass: the above, one that matches nothing and one that
\* is no valid selector.
Selectors == PageSelectors \cup {"#nonexistent", "bad["}

\* An element that never becomes visible.
Never == -1

\* The text_content() wait of playwright when no timeout is passed.
PlaywrightTimeout == 30000

\* The timeout of is_element_visible when none is passed.
VisibleTimeout == 5000

Absent == [delay |-> Never, text |-> <<>>]

BadgeTexts == {<<"3">>, <<"1", "2">>, <<>>, <<" ", "3">>, <<"sup2">>, <<"x">>}
BannerTexts == {<<"E">>, NoText}

\* The states of an element: absent, or visible now or after a delay (ms).
Elements(s) ==
    {Absent} \cup [delay : {0, 3000},
                   text : IF s = ERROR_MESSAGE THEN BannerTexts ELSE BadgeTexts]

\* The element a selector resolves to.
Element(d, sel) == IF sel \in DOMAIN d THEN d[sel] ELSE Absent

\* timeout: Optional[int] = None
NoTimeout == [given |-> FALSE, ms |-> 0]

\* The override timeouts callers pass.
Timeouts == {NoTimeout} \cup [given : {TRUE}, ms : {0, 2000, 60000, -1}]

\* An override of 0 passed on as it is (timeout if timeout is not None
\* else default).
Effective_ZeroPassed(t, default) == IF ~t.given THEN default ELSE t.ms

\* timeout = timeout or default
Effective(t, default) == IF ~t.given \/ t.ms = 0 THEN default ELSE t.ms

\* locator.wait_for(state="visible", timeout=t) on selector sel: the set of
\* ways it can end, with the time it took.  A selector that does not parse
\* raises at once.  With a negative timeout the deadline has passed when the
\* wait begins: whether an element that is visible already is still seen is
\* left open.
WaitFor(d, sel, t) ==
    LET e == Element(d, sel)
        seen == [ok |-> TRUE, exc |-> "none", elapsed |-> IF e.delay > 0 THEN e.delay ELSE 0]
        late == [ok |-> FALSE, exc |-> "TimeoutError", elapsed |-> IF t > 0 THEN t ELSE 0]
    IN  IF sel = "bad[" THEN {[ok |-> FALSE, exc |-> "Error", elapsed |-> 0]}
        ELSE IF t < 0 THEN (IF e.delay = 0 THEN {seen, late} ELSE {late})
        ELSE IF e.delay # Never /\ e.delay <= t THEN {seen}
        ELSE {late}

\* The page after ms milliseconds: elements on their way have come nearer.
Elapse(d, ms) ==
    [s \in DOMAIN d |->
        IF d[s].delay = Never THEN d[s]
        ELSE [d[s] EXCEPT !.delay = IF @ > ms THEN @ - ms ELSE 0]]

NoPageCall == [op |-> "none", sel |-> "none", timeout |-> NoTimeout, step |-> "idle",
               snap |-> Absent]
NoPageOut == [op |-> "none", sel |-> "none", timeout |-> NoTimeout, kind |-> "none",
              val |-> "none", exc |-> "none", vis |-> "na", snap |-> Absent,
              changed |-> FALSE]

\* The calls a test makes on the page objects.
PageCalls ==
    [op : {"is_element_visible"}, sel : Selectors, timeout : Timeouts]
    \cup {[op |-> "get_error_message", sel |-> ERROR_MESSAGE, timeout |-> NoTimeout],
          [op |-> "inventory.get_cart_badge_count", sel |-> INVENTORY_BADGE,
           timeout |-> NoTimeout],
          [op |-> "cart.get_cart_badge_count", sel |-> CART_BADGE, timeout |-> NoTimeout]}

InitPage ==
    /\ dom \in [PageSelectors -> UNION {Elements(s) : s \in PageSelectors}]
    /\ \A s \in PageSelectors : dom[s] \in Elements(s)
    /\ Cardinality({s \in PageSelectors : dom[s] # Absent}) <= 1
    /\ ptimeout \in {TimeoutOf(e) : e \in {x \in EnvValues : TimeoutValid(x)}}
    /\ pcall = NoPageCall
    /\ pout = NoPageOut
    /\ pchanged = FALSE

\* The application (or the user) changes the element a call is about
\* between two steps of the call.  (A change before the first step is a
\* different page at the start of the call.)
PageChange ==
    /\ pcall.step \in {"wait", "text"}
    /\ \E e \in Elements(pcall.sel) :
          e # dom[pcall.sel] /\ dom' = [dom EXCEPT ![pcall.sel] = e]
    /\ pchanged' = TRUE
    /\ UNCHANGED <<ptimeout, pcall, pout>>
    /\ UNCHANGED notPage

\* A test calls a method of a page object.
BeginPageCall ==
    /\ pcall.op = "none"
    /\ \E c \in PageCalls :
          pcall' = [op |-> c.op, sel |-> c.sel, timeout |-> c.timeout, step |-> "visible",
                    snap |-> Element(dom, c.sel)]
    /\ pout' = NoPageOut
    /\ pchanged' = FALSE
    /\ UNCHANGED <<dom, ptimeout>>
    /\ UNCHANGED notPage

\* The call under way ends: it returns val or raises exc.
EndPageCall(kind, val, exc, vis) ==
    /\ pout' = [op |-> pcall.op, sel |-> pcall.sel, timeout |-> pcall.timeout,
                kind |-> kind, val |-> val, exc |-> exc, vis |-> vis,
                snap |-> pcall.snap, changed |-> pchanged]
    /\ pcall' = NoPageCall

\* is_element_visible without the try/except: the failed wait propagates.
IsElementVisible_NoCatch(d, sel, t) ==
    {[kind |-> IF w.ok THEN "ret" ELSE "raise", val |-> w.ok, exc |-> w.exc,
      elapsed |-> w.elapsed] : w \in WaitFor(d, sel, Effective(t, VisibleTimeout))}

\* BasePage.is_element_visible(selector, timeout): the ways it can end.
IsElementVisible(d, sel, t) ==
    {[kind |-> "ret", val |-> w.ok, exc |-> "none", elapsed |-> w.elapsed] :
        w \in WaitFor(d, sel, Effective(t, VisibleTimeout))}

\* LoginPage.get_error_message going on to get_text with no banner visible.
ErrorMessageDefault_GetText == [kind |-> "raise", val |-> "none", exc |-> "TimeoutError"]

\* LoginPage.get_error_message: return "" (no banner visible)
ErrorMessageDefault == [kind |-> "ret", val |-> <<>>, exc |-> "none"]

\* get_cart_badge_count of both pages: return 0 (no badge visible)
BadgeDefault == [kind |-> "ret", val |-> 0, exc |-> "none"]

\* The first step of every call modelled here: is_element_visible(selector).
\* is_element_visible itself ends with it; the others go on to get_text when
\* it returned True and return their default when it returned False.
StepVisible ==
    /\ pcall.step = "visible"
    /\ \E r \in IsElementVisible(dom, pcall.sel, pcall.timeout) :
          /\ dom' = Elapse(dom, r.elapsed)
          /\ IF r.kind = "raise"
             THEN EndPageCall("raise", "none", r.exc, "na")
             ELSE IF pcall.op = "is_element_visible"
             THEN EndPageCall("ret", r.val, "none", IF r.val THEN "yes" ELSE "no")
             ELSE IF r.val
             THEN pcall' = [pcall EXCEPT !.step = "wait"] /\ UNCHANGED pout
             ELSE LET dflt == IF pcall.op = "get_error_message"
                              THEN ErrorMessageDefault ELSE BadgeDefault
                  IN  EndPageCall(dflt.kind, dflt.val, dflt.exc, "no")
    /\ UNCHANGED <<ptimeout, pchanged>>
    /\ UNCHANGED notPage

\* get_text: element = self.wait_for_element(selector, timeout)
StepWait ==
    /\ pcall.step = "wait"
    /\ \E w \in WaitFor(dom, pcall.sel, Effective(NoTimeout, ptimeout)) :
          /\ dom' = Elapse(dom, w.elapsed)
          /\ IF w.ok
             THEN pcall' = [pcall EXCEPT !.step = "text"] /\ UNCHANGED pout
             ELSE EndPageCall("raise", "none", w.exc, "yes")
    /\ UNCHANGED <<ptimeout, pchanged>>
    /\ UNCHANGED notPage

\* InventoryPage.get_cart_badge_count:
\* int(badge_text) if badge_text.isdigit() else 0
InventoryBadgeCount(badge_text) ==
    IF IsDigit(badge_text)
    THEN IF IntParses(badge_text)
         THEN [kind |-> "ret", val |-> IntValue(badge_text), exc |-> "none"]
         ELSE [kind |-> "raise", val |-> "none", exc |-> "ValueError"]
    ELSE [kind |-> "ret", val |-> 0, exc |-> "none"]

\* CartPage.get_cart_badge_count: int(badge_text), 0 on ValueError.
CartBadgeCount(badge_text) ==
    IF IntParses(badge_text)
    THEN [kind |-> "ret", val |-> IntValue(badge_text), exc |-> "none"]
    ELSE [kind |-> "ret", val |-> 0, exc |-> "none"]

\* LoginPage.get_error_message: return self.get_text(self.ERROR_MESSAGE)
ErrorMessage(text) == [kind |-> "ret", val |-> text, exc |-> "none"]

\* get_text: return element.text_content() or "", and what the caller makes
\* of the text.  text_content() waits for the element if it has gone.
StepText ==
    /\ pcall.step = "text"
    /\ LET e == Element(dom, pcall.sel)
           there == e.delay # Never /\ e.delay <= PlaywrightTimeout
           text == TextOrEmpty(e.text)
           r == CASE pcall.op = "get_error_message" -> ErrorMessage(text)
                  [] pcall.op = "inventory.get_cart_badge_count" -> InventoryBadgeCount(text)
                  [] pcall.op = "cart.get_cart_badge_count" -> CartBadgeCount(text)
       IN  IF there
           THEN /\ dom' = Elapse(dom, e.delay)
                /\ EndPageCall(r.kind, r.val, r.exc, "yes")
           ELSE /\ dom' = Elapse(dom, PlaywrightTimeout)
                /\ EndPageCall("raise", "none", "TimeoutError", "yes")
    /\ UNCHANGED <<ptimeout, pchanged>>
    /\ UNCHANGED notPage

NextPage ==
    \/ PageChange
    \/ BeginPageCall
    \/ StepVisible
    \/ StepWait
    \/ StepText

(***************************************************************************)
(* The controls keyed by a product name: InventoryPage.add_product_to_cart,*)
(* remove_product_from_cart, is_product_in_cart and                        *)
(* CartPage.remove_item_by_name.                                           *)
(***************************************************************************)
UpperLetters == <<"A", "B", "C", "D", "E", "F", "G", "H", "I", "J", "K", "L", "M",
                  "N", "O", "P", "Q", "R", "S", "T", "U", "V", "W", "X", "Y", "Z">>
LowerLetters == <<"a", "b", "c", "d", "e", "f", "g", "h", "i", "j", "k", "l", "m",
                  "n", "o", "p", "q", "r", "s", "t", "u", "v", "w", "x", "y", "z">>

\* str.lower() on one character.
LowerChar(c) ==
    IF \E i \in 1..Len(UpperLetters) : UpperLetters[i] = c
    THEN LowerLetters[CHOOSE i \in 1..Len(UpperLetters) : UpperLetters[i] = c]
    ELSE c

\* str.lower()
Lower(t) == [i \in 1..Len(t) |-> LowerChar(t[i])]

\* str.replace(old, new) for a one-character old and a new of at most one
\* character (new is a sequence).
RECURSIVE Replace(_, _, _)
Replace(t, old, new) ==
    IF Len(t) = 0 THEN <<>>
    ELSE (IF Head(t) = old THEN new ELSE <<Head(t)>>) \o Replace(Tail(t), old, new)

\* add_product_to_cart: product_name.lower().replace(' ', '-').replace("'", "")
AddTestId(product_name) == Replace(Replace(Lower(product_name), " ", <<"-">>), "'", <<>>)

\* remove_product_from_cart with the apostrophe left in.
RemoveTestId_KeepApostrophe(product_name) == Replace(Lower(product_name), " ", <<"-">>)

\* remove_product_from_cart: the same expression.
RemoveTestId(product_name) ==
    Replace(Replace(Lower(product_name), " ", <<"-">>), "'", <<>>)

\* is_product_in_cart: the same expression.
InCartTestId(product_name) ==
    Replace(Replace(Lower(product_name), " ", <<"-">>), "'", <<>>)

\* CartPage.remove_item_by_name:
\* item_name.lower().replace(" ", "-").replace(".", "").replace("(", "").replace(")", "")
CartDataTestName(item_name) ==
    Replace(Replace(Replace(Replace(Lower(item_name), " ", <<"-">>), ".", <<>>),
                    "(", <<>>), ")", <<>>)

\* The data-test values the selectors ask for: add-to-cart-<id>, remove-<id>.
AddToCartPrefix == <<"a", "d", "d", "-", "t", "o", "-", "c", "a", "r", "t", "-">>
RemovePrefix == <<"r", "e", "m", "o", "v", "e", "-">>

SauceLabsBackpack == <<"S", "a", "u", "c", "e", " ", "L", "a", "b", "s", " ", "B", "a", "c", "k", "p", "a", "c", "k">>
SauceLabsBoltTShirt == <<"S", "a", "u", "c", "e", " ", "L", "a", "b", "s", " ", "B", "o", "l", "t", " ", "T", "-", "S", "h", "i", "r", "t">>
TestAllTheThings == <<"T", "e", "s", "t", ".", "a", "l", "l", "T", "h", "e", "T", "h", "i", "n", "g", "s", "(", ")", " ", "T", "-", "S", "h", "i", "r", "t", " ", "(", "R", "e", "d", ")">>

\* The characters short names are made of.
NameChars == {"S", "a", " ", "'", "-", ".", "(", ")"}

RECURSIVE SeqsUpTo(_, _)
SeqsUpTo(S, n) ==
    IF n = 0 THEN {<<>>}
    ELSE LET shorter == SeqsUpTo(S, n - 1)
         IN  shorter \cup {Append(t, c) : t \in {u \in shorter : Len(u) = n - 1}, c \in S}

\* The product names tests pass: three names of the shop and every short name.
Names == {SauceLabsBackpack, SauceLabsBoltTShirt, TestAllTheThings}
         \cup SeqsUpTo(NameChars, MaxNameLen)

NoIdOut == [op |-> "none", name |-> <<>>, target |-> <<>>, kind |-> "none",
            val |-> "none", exc |-> "none"]

\* The page shows no, some or all of the controls a name can be derived to.
InitId ==
    /\ product \in Names
    /\ controls \in SUBSET {AddToCartPrefix \o AddTestId(product),
                             RemovePrefix \o RemoveTestId(product),
                             RemovePrefix \o CartDataTestName(product)}
    /\ idOut = NoIdOut

\* click_element(selector): wait for the control, then click it; the wait
\* raises when the page shows no such control.
ClickControl(op, name, target) ==
    idOut' = IF target \in controls
             THEN [op |-> op, name |-> name, target |-> target, kind |-> "ret",
                   val |-> "clicked", exc |-> "none"]
             ELSE [op |-> op, name |-> name, target |-> target, kind |-> "raise",
                   val |-> "none", exc |-> "TimeoutError"]

\* InventoryPage.add_product_to_cart(product_name)
AddProductToCart ==
    /\ ClickControl("add_product_to_cart", product,
                    AddToCartPrefix \o AddTestId(product))
    /\ UNCHANGED <<product, controls>>
    /\ UNCHANGED notId

\* InventoryPage.remove_product_from_cart(product_name)
RemoveProductFromCart ==
    /\ ClickControl("remove_product_from_cart", product,
                    RemovePrefix \o RemoveTestId(product))
    /\ UNCHANGED <<product, controls>>
    /\ UNCHANGED notId

\* InventoryPage.is_product_in_cart(product_name)
IsProductInCart ==
    /\ LET target == RemovePrefix \o InCartTestId(product)
       IN  idOut' = [op |-> "is_product_in_cart", name |-> product, target |-> target,
                     kind |-> "ret", val |-> (target \in controls), exc |-> "none"]
    /\ UNCHANGED <<product, controls>>
    /\ UNCHANGED notId

\* CartPage.remove_item_by_name(item_name)
RemoveItemByName ==
    /\ ClickControl("remove_item_by_name", product,
                    RemovePrefix \o CartDataTestName(product))
    /\ UNCHANGED <<product, controls>>
    /\ UNCHANGED notId

NextId ==
    \/ AddProductToCart
    \/ RemoveProductFromCart
    \/ IsProductInCart
    \/ RemoveItemByName

(***************************************************************************)
(* Prices: float(price.replace('$', '')).  The model reads decimal         *)
(* literals with at most two decimals and counts in cents, where the code  *)
(* counts in binary floating point.                                        *)
(***************************************************************************)
AllDigits(t) == \A i \in 1..Len(t) : t[i] \in DecimalDigits

\* The position of the decimal point, 0 if there is none.
PointAt(t) == IF \E i \in 1..Len(t) : t[i] = "."
              THEN CHOOSE i \in 1..Len(t) : t[i] = "." /\ \A j \in 1..(i - 1) : t[j] # "."
              ELSE 0

\* float(text) succeeds: blanks around an optionally signed decimal literal
\* with at least one digit.
FloatParses(t) ==
    LET u == Unsigned(Strip(t))
        p == PointAt(u)
        whole == IF p = 0 THEN u ELSE SubSeq(u, 1, p - 1)
        frac == IF p = 0 THEN <<>> ELSE SubSeq(u, p + 1, Len(u))
    IN  /\ AllDigits(whole) /\ AllDigits(frac)
        /\ Len(whole) + Len(frac) > 0
        /\ Len(frac) <= 2

\* float(text) in cents, where it succeeds.
FloatCents(t) ==
    LET b == Strip(t)
        u == Unsigned(b)
        p == PointAt(u)
        whole == IF p = 0 THEN u ELSE SubSeq(u, 1, p - 1)
        frac == IF p = 0 THEN <<>> ELSE SubSeq(u, p + 1, Len(u))
        cents == IF Len(frac) = 1 THEN 10 * DecimalValue(frac) ELSE DecimalValue(frac)
        v == 100 * DecimalValue(whole) + cents
    IN  IF Len(b) > 0 /\ Head(b) = "-" THEN 0 - v ELSE v

\* price.replace('$', '')
StripDollar(price) == Replace(price, "$", <<>>)

(***************************************************************************)
(* The product list: InventoryPage.sort_products and the two               *)
(* verify_products_sorted_* methods.                                       *)
(***************************************************************************)
\* ord() of the characters product names are made of here.
CodePoint(c) == CASE c = "B" -> 66 [] c = "a" -> 97

\* str < str: by code point, a proper prefix first.
RECURSIVE StrLess(_, _)
StrLess(a, b) ==
    IF Len(b) = 0 THEN FALSE
    ELSE IF Len(a) = 0 THEN TRUE
    ELSE IF Head(a) = Head(b) THEN StrLess(Tail(a), Tail(b))
    ELSE CodePoint(Head(a)) < CodePoint(Head(b))

\* sorted(names) and sorted(names, reverse=True): a stable insertion sort.
RECURSIVE InsertName(_, _, _)
InsertName(x, t, reverse) ==
    IF Len(t) = 0 THEN <<x>>
    ELSE IF (IF reverse THEN StrLess(Head(t), x) ELSE StrLess(x, Head(t)))
         THEN <<x>> \o t
         ELSE <<Head(t)>> \o InsertName(x, Tail(t), reverse)

RECURSIVE SortedNames(_, _)
SortedNames(t, reverse) ==
    IF Len(t) = 0 THEN <<>>
    ELSE InsertName(t[Len(t)], SortedNames(SubSeq(t, 1, Len(t) - 1), reverse), reverse)

\* sorted(price_values) and sorted(price_values, reverse=True)
RECURSIVE InsertValue(_, _, _)
InsertValue(x, t, reverse) ==
    IF Len(t) = 0 THEN <<x>>
    ELSE IF (IF reverse THEN Head(t) < x ELSE x < Head(t))
         THEN <<x>> \o t
         ELSE <<Head(t)>> \o InsertValue(x, Tail(t), reverse)

RECURSIVE SortedValues(_, _)
SortedValues(t, reverse) ==
    IF Len(t) = 0 THEN <<>>
    ELSE InsertValue(t[Len(t)], SortedValues(SubSeq(t, 1, Len(t) - 1), reverse), reverse)

SORT_NAME_A_TO_Z == "az"
SORT_NAME_Z_TO_A == "za"
SORT_PRICE_LOW_TO_HIGH == "lohi"
SORT_PRICE_HIGH_TO_LOW == "hilo"
SortTokens == {SORT_NAME_A_TO_Z, SORT_NAME_Z_TO_A, SORT_PRICE_LOW_TO_HIGH,
               SORT_PRICE_HIGH_TO_LOW}

ProductNames == {<<"B">>, <<"a">>}
PriceTexts == {<<"$", "9", ".", "9", "9">>, <<"$", "2", "9", ".", "9", "9">>, <<>>}

Products == [name : ProductNames, price : PriceTexts]

\* get_product_names / get_product_prices: the texts in page order.
get_product_names(list) == [i \in 1..Len(list) |-> TextOrEmpty(list[i].name)]
get_product_prices(list) == [i \in 1..Len(list) |-> TextOrEmpty(list[i].price)]

\* The orders of the list that the shop may show for a sort option: by name
\* or by price, up or down; a list with a price that is no number it leaves
\* in any order.
Reorderings(list) ==
    LET n == Len(list)
        bijections == {f \in [1..n -> 1..n] : \A i, j \in 1..n : f[i] = f[j] => i = j}
    IN  {[i \in 1..n |-> list[f[i]]] : f \in bijections}

InOrder(list, token) ==
    \A i \in 1..(Len(list) - 1) :
        LET a == list[i]
            b == list[i + 1]
        IN  CASE token = "az" -> ~StrLess(b.name, a.name)
              [] token = "za" -> ~StrLess(a.name, b.name)
              [] token = "lohi" ->
                    FloatCents(StripDollar(a.price)) <= FloatCents(StripDollar(b.price))
              [] token = "hilo" ->
                    FloatCents(StripDollar(a.price)) >= FloatCents(StripDollar(b.price))

PricesParse(list) == \A i \in 1..Len(list) : FloatParses(StripDollar(list[i].price))

ShopOrders(list, token) ==
    IF token \in {"lohi", "hilo"} /\ ~PricesParse(list)
    THEN Reorderings(list)
    ELSE {l \in Reorderings(list) : InOrder(l, token)}

NoSortOut == [op |-> "none", ascending |-> FALSE, kind |-> "none", val |-> "none",
              exc |-> "none"]

InitSort ==
    /\ items \in UNION {[1..n -> Products] : n \in 0..MaxItems}
    /\ sortedBy = "none"
    /\ sortOut = NoSortOut

\* sort_products(sort_option): select_dropdown_option sets the dropdown and
\* the shop shows the list in that order.
SortProducts ==
    /\ \E token \in SortTokens :
          /\ items' \in ShopOrders(items, token)
          /\ sortedBy' = token
    /\ sortOut' = [op |-> "sort_products", ascending |-> FALSE, kind |-> "ret",
                   val |-> "self", exc |-> "none"]
    /\ UNCHANGED notSort

\* sort_products when the dropdown does not become visible: the wait raises.
SortProductsFails ==
    /\ sortOut' = [op |-> "sort_products", ascending |-> FALSE, kind |-> "raise",
                   val |-> "none", exc |-> "TimeoutError"]
    /\ UNCHANGED <<items, sortedBy>>
    /\ UNCHANGED notSort

\* verify_products_sorted_alphabetically comparing with sorted(names) whatever
\* ascending says.
VerifyAlphabetically_IgnoreDirection(list, ascending) ==
    get_product_names(list) = SortedNames(get_product_names(list), FALSE)

\* verify_products_sorted_alphabetically(ascending)
VerifyAlphabetically(list, ascending) ==
    LET product_names == get_product_names(list)
        sorted_names == IF ascending THEN SortedNames(product_names, FALSE)
                        ELSE SortedNames(product_names, TRUE)
    IN  product_names = sorted_names

\* verify_products_sorted_by_price asking for strictly rising (falling)
\* prices.
VerifyByPrice_Strict(list, ascending) ==
    LET price_values == [i \in 1..Len(list) |->
                            FloatCents(StripDollar(TextOrEmpty(list[i].price)))]
    IN  \A i \in 1..(Len(list) - 1) :
            IF ascending THEN price_values[i] < price_values[i + 1]
            ELSE price_values[i] > price_values[i + 1]

\* verify_products_sorted_by_price(ascending), where every price is a number
VerifyByPrice(list, ascending) ==
    LET prices == get_product_prices(list)
        price_values == [i \in 1..Len(prices) |-> FloatCents(StripDollar(prices[i]))]
        sorted_prices == IF ascending THEN SortedValues(price_values, FALSE)
                         ELSE SortedValues(price_values, TRUE)
    IN  price_values = sorted_prices

VerifySortedAlphabetically ==
    /\ \E ascending \in BOOLEAN :
          sortOut' = [op |-> "verify_products_sorted_alphabetically",
                      ascending |-> ascending, kind |-> "ret",
                      val |-> VerifyAlphabetically(items, ascending), exc |-> "none"]
    /\ UNCHANGED <<items, sortedBy>>
    /\ UNCHANGED notSort

\* float() raises ValueError on the first price that is no number.
VerifySortedByPrice ==
    /\ \E ascending \in BOOLEAN :
          sortOut' = IF PricesParse(items)
                     THEN [op |-> "verify_products_sorted_by_price",
                           ascending |-> ascending, kind |-> "ret",
                           val |-> VerifyByPrice(items, ascending), exc |-> "none"]
                     ELSE [op |-> "verify_products_sorted_by_price",
                           ascending |-> ascending, kind |-> "raise",
                           val |-> "none", exc |-> "ValueError"]
    /\ UNCHANGED <<items, sortedBy>>
    /\ UNCHANGED notSort

NextSort ==
    \/ SortProducts
    \/ SortProductsFails
    \/ VerifySortedAlphabetically
    \/ VerifySortedByPrice

(***************************************************************************)
(* The line items of the cart: CartPage.get_cart_item_prices,              *)
(* get_cart_item_quantities and calculate_total_price.  Amounts are in     *)
(* cents.                                                                  *)
(***************************************************************************)
CartPriceTexts == {<<"$", "2", "9", ".", "9", "9">>, <<"$", "9", ".", "9", "9">>, <<>>}
CartQuantityTexts == {<<"1">>, <<"2">>, <<"x">>, <<"sup2">>, NoText}

\* get_cart_item_prices: element.text_content() or "" for every price node.
get_cart_item_prices(texts) == [i \in 1..Len(texts) |-> TextOrEmpty(texts[i])]

\* qty_text = element.text_content() or "0"
QtyText(t) == IF t = NoText \/ t = <<>> THEN <<"0">> ELSE t

\* get_cart_item_quantities: int(qty_text) if qty_text.isdigit() else 0 for
\* every quantity node; int() raises ValueError on a digit that is no
\* decimal digit.
get_cart_item_quantities(texts) ==
    IF \E i \in 1..Len(texts) : IsDigit(QtyText(texts[i])) /\ ~IntParses(QtyText(texts[i]))
    THEN [kind |-> "raise", val |-> <<>>, exc |-> "ValueError"]
    ELSE [kind |-> "ret",
          val |-> [i \in 1..Len(texts) |->
                      IF IsDigit(QtyText(texts[i])) THEN IntValue(QtyText(texts[i])) ELSE 0],
          exc |-> "none"]

\* The loop of calculate_total_price from position i on, total so far given.
RECURSIVE TotalLoop(_, _, _, _)
TotalLoop(prices, quantities, i, total) ==
    IF i > Len(prices) THEN [kind |-> "ret", val |-> total, exc |-> "none"]
    ELSE IF i <= Len(quantities)
         THEN IF FloatParses(StripDollar(prices[i]))
              THEN TotalLoop(prices, quantities, i + 1,
                             total + FloatCents(StripDollar(prices[i])) * quantities[i])
              ELSE [kind |-> "raise", val |-> 0, exc |-> "ValueError"]
         ELSE TotalLoop(prices, quantities, i + 1, total)

\* calculate_total_price adding every price once, whatever its quantity.
calculate_total_price_Unweighted(priceTexts, quantityTexts) ==
    LET prices == get_cart_item_prices(priceTexts)
        quantities == get_cart_item_quantities(quantityTexts)
    IN  IF quantities.kind = "raise" THEN [quantities EXCEPT !.val = 0]
        ELSE TotalLoop(prices, [i \in 1..Len(quantities.val) |-> 1], 1, 0)

\* calculate_total_price()
calculate_total_price(priceTexts, quantityTexts) ==
    LET prices == get_cart_item_prices(priceTexts)
        quantities == get_cart_item_quantities(quantityTexts)
    IN  IF quantities.kind = "raise" THEN [quantities EXCEPT !.val = 0]
        ELSE TotalLoop(prices, quantities.val, 1, 0)

NoCartOut == [op |-> "none", kind |-> "none", val |-> 0, exc |-> "none"]

InitCart ==
    /\ cartPrices \in UNION {[1..n -> CartPriceTexts] : n \in 0..MaxCartItems}
    /\ cartQuantities \in UNION {[1..n -> CartQuantityTexts] : n \in 0..MaxCartItems}
    /\ cartOut = NoCartOut

GetCartItemPrices ==
    /\ cartOut' = [op |-> "get_cart_item_prices", kind |-> "ret",
                   val |-> get_cart_item_prices(cartPrices), exc |-> "none"]
    /\ UNCHANGED <<cartPrices, cartQuantities>>
    /\ UNCHANGED notCart

GetCartItemQuantities ==
    /\ cartOut' = [op |-> "get_cart_item_quantities"]
                     @@ get_cart_item_quantities(cartQuantities)
    /\ UNCHANGED <<cartPrices, cartQuantities>>
    /\ UNCHANGED notCart

CalculateTotalPrice ==
    /\ cartOut' = [op |-> "calculate_total_price"]
                     @@ calculate_total_price(cartPrices, cartQuantities)
    /\ UNCHANGED <<cartPrices, cartQuantities>>
    /\ UNCHANGED notCart

NextCart ==
    \/ GetCartItemPrices
    \/ GetCartItemQuantities
    \/ CalculateTotalPrice

(***************************************************************************)
(* What the page objects ask of the browser: the waits and actions of      *)
(* BasePage, and LoginPage.login built from them.  actLog records every    *)
(* request made to playwright, in order, and whether it succeeded.         *)
(***************************************************************************)
USERNAME_INPUT == "[data-test=username]"
PASSWORD_INPUT == "[data-test=password]"
LOGIN_BUTTON == "[data-test=login-button]"

\* The load state wait_for_page_load waits for.
NETWORK_IDLE == "networkidle"

ActTargets == {USERNAME_INPUT, PASSWORD_INPUT, LOGIN_BUTTON}

\* Selectors callers pass: the above and one that is no valid selector.
ActSelectors == ActTargets \cup {"bad["}

\* An element (or the load state): never there, there now, there in 3 s.
ActStates == {Absent} \cup [delay : {0, 3000}, text : {<<"E">>}]

\* The override timeouts callers pass.
ActTimeouts == {NoTimeout} \cup [given : {TRUE}, ms : {0, 2000}]

\* The methods of BasePage that act on an element and those that only wait.
ActionPrims == {"click_element", "fill_text", "select_dropdown_option", "hover_element",
                "scroll_to_element"}
WaitPrims == {"wait_for_element", "wait_for_page_load", "wait_for_text",
              "is_element_visible"}

\* The method of the locator each acting method calls last.
BrowserAction(prim) ==
    CASE prim = "click_element" -> "click"
      [] prim = "fill_text" -> "fill"
      [] prim = "select_dropdown_option" -> "select_option"
      [] prim = "hover_element" -> "hover"
      [] prim = "scroll_to_element" -> "scroll_into_view_if_needed"

\* The playwright call each method waits with.
WaitEvent(prim) ==
    CASE prim = "wait_for_page_load" -> "wait_for_load_state"
      [] prim = "wait_for_text" -> "to_contain_text"
      [] OTHER -> "wait_for"

\* Every method waiting with timeout or self.timeout.
PassedTimeout_Global(prim, t, cfg) == Effective(t, cfg.timeout)

\* The timeout a method passes to playwright: timeout or self.timeout, in
\* is_element_visible timeout or 5000.
PassedTimeout(prim, t, cfg) ==
    IF prim = "is_element_visible" THEN Effective(t, VisibleTimeout)
    ELSE Effective(t, cfg.timeout)

\* One call of a BasePage method.
Prim(prim, sel, text, t) == [prim |-> prim, sel |-> sel, text |-> text, timeout |-> t]

\* login entering the password before the username.
LoginSteps_PasswordFirst(username, password) ==
    << Prim("fill_text", PASSWORD_INPUT, password, NoTimeout),
       Prim("fill_text", USERNAME_INPUT, username, NoTimeout),
       Prim("click_element", LOGIN_BUTTON, "", NoTimeout) >>

\* LoginPage.login(username, password): enter_username, enter_password,
\* click_login.
LoginSteps(username, password) ==
    << Prim("fill_text", USERNAME_INPUT, username, NoTimeout),
       Prim("fill_text", PASSWORD_INPUT, password, NoTimeout),
       Prim("click_element", LOGIN_BUTTON, "", NoTimeout) >>

\* The calls a test makes.
ActCalls ==
    [op : ActionPrims \cup {"wait_for_element", "is_element_visible"},
     sel : ActSelectors, text : {"t"}, password : {""}, timeout : ActTimeouts]
    \cup [op : {"wait_for_text"}, sel : ActSelectors, text : {"E", "X"}, password : {""},
          timeout : ActTimeouts]
    \cup [op : {"wait_for_page_load"}, sel : {NETWORK_IDLE}, text : {""}, password : {""},
          timeout : ActTimeouts]
    \cup [op : {"login"}, sel : {"none"}, text : {"u"}, password : {"p"},
          timeout : {NoTimeout}]
    \cup [op : {"login_standard_user", "login_locked_user", "login_problem_user"},
          sel : {"none"}, text : {""}, password : {""}, timeout : {NoTimeout}]

\* The BasePage calls a call is made of.
Todo(c, cfg) ==
    CASE c.op = "login" -> LoginSteps(c.text, c.password)
      [] c.op = "login_standard_user" -> LoginSteps(cfg.standard_user, cfg.standard_password)
      [] c.op = "login_locked_user" -> LoginSteps(cfg.locked_user, cfg.standard_password)
      [] c.op = "login_problem_user" -> LoginSteps(cfg.problem_user, cfg.standard_password)
      [] OTHER -> <<Prim(c.op, c.sel, c.text, c.timeout)>>

NoActCall == [op |-> "none", sel |-> "none", text |-> "", password |-> "",
              timeout |-> NoTimeout, todo |-> <<>>, step |-> "idle"]
NoActOut == [op |-> "none", sel |-> "none", text |-> "", password |-> "",
             timeout |-> NoTimeout, kind |-> "none", val |-> "none", exc |-> "none"]

\* expect(locator).to_contain_text(text, timeout=t): the element is there in
\* time with the text in it, or AssertionError when the time is up.
ContainTextWait(d, sel, text, t) ==
    LET e == Element(d, sel)
    IN  IF sel = "bad[" THEN {[ok |-> FALSE, exc |-> "Error", elapsed |-> 0]}
        ELSE IF e.delay # Never /\ e.delay <= t /\ \E i \in 1..Len(e.text) : e.text[i] = text
        THEN {[ok |-> TRUE, exc |-> "none", elapsed |-> e.delay]}
        ELSE {[ok |-> FALSE, exc |-> "AssertionError", elapsed |-> t]}

InitAct ==
    /\ actConfig \in {Config(e, 1) : e \in {x \in EnvValues : TimeoutValid(x)}}
    /\ actDom \in [ActTargets \cup {NETWORK_IDLE} -> ActStates]
    /\ actCall = NoActCall
    /\ actLog = <<>>
    /\ actOut = NoActOut

\* A test calls a method on a page in any state (one call is followed here).
BeginAct ==
    /\ actCall.op = "none" /\ actOut.op = "none"
    /\ \E c \in ActCalls :
          actCall' = [op |-> c.op, sel |-> c.sel, text |-> c.text, password |-> c.password,
                      timeout |-> c.timeout, todo |-> Todo(c, actConfig), step |-> "wait"]
    /\ actLog' = <<>>
    /\ actOut' = NoActOut
    /\ UNCHANGED <<actConfig, actDom>>
    /\ UNCHANGED notAct

\* The call under way ends: it returns val or raises exc.
EndAct(kind, val, exc) ==
    /\ actOut' = [op |-> actCall.op, sel |-> actCall.sel, text |-> actCall.text,
                  password |-> actCall.password, timeout |-> actCall.timeout,
                  kind |-> kind, val |-> val, exc |-> exc]
    /\ actCall' = NoActCall

\* The BasePage call under way has returned: the next one begins, or the
\* whole call returns.
NextPrim(val) ==
    IF Len(actCall.todo) > 1
    THEN /\ actCall' = [actCall EXCEPT !.todo = Tail(@), !.step = "wait"]
         /\ UNCHANGED actOut
    ELSE EndAct("ret", val, "none")

\* The wait every BasePage method begins with.  The acting methods and
\* wait_for_element wait in wait_for_element; is_element_visible turns a
\* failed wait into False.
ActWait ==
    /\ actCall.step = "wait"
    /\ LET p == Head(actCall.todo)
           t == PassedTimeout(p.prim, p.timeout, actConfig)
           ways == IF p.prim = "wait_for_text" THEN ContainTextWait(actDom, p.sel, p.text, t)
                   ELSE WaitFor(actDom, p.sel, t)
       IN  \E w \in ways :
                 /\ actLog' = Append(actLog, [ev |-> WaitEvent(p.prim), sel |-> p.sel,
                                              ms |-> t, ok |-> w.ok,
                                              text |-> IF p.prim = "wait_for_text"
                                                       THEN p.text ELSE ""])
                 /\ actDom' = Elapse(actDom, w.elapsed)
                 /\ IF p.prim = "is_element_visible" THEN EndAct("ret", w.ok, "none")
                    ELSE IF ~w.ok THEN EndAct("raise", "none", w.exc)
                    ELSE IF p.prim \in ActionPrims
                    THEN actCall' = [actCall EXCEPT !.step = "act"] /\ UNCHANGED actOut
                    ELSE NextPrim(IF p.prim = "wait_for_element" THEN "locator" ELSE "none")
    /\ UNCHANGED actConfig
    /\ UNCHANGED notAct

\* One request to act on the element: playwright waits for the element
\* itself before it acts, and raises when its own time is up.
Request(ev, text, after) ==
    LET p == Head(actCall.todo)
    IN  \E w \in WaitFor(actDom, p.sel, PlaywrightTimeout) :
              /\ actLog' = Append(actLog, [ev |-> ev, sel |-> p.sel, ms |-> 0, ok |-> w.ok,
                                           text |-> text])
              /\ actDom' = Elapse(actDom, w.elapsed)
              /\ IF ~w.ok THEN EndAct("raise", "none", w.exc)
                 ELSE IF after = "fill"
                 THEN actCall' = [actCall EXCEPT !.step = "fill"] /\ UNCHANGED actOut
                 ELSE NextPrim("none")

\* fill_text without element.clear().
FirstRequest_NoClear ==
    LET p == Head(actCall.todo)
    IN  Request(BrowserAction(p.prim), IF p.prim = "fill_text" THEN p.text ELSE "", "next")

\* What an acting method does after wait_for_element: element.clear() in
\* fill_text, the action itself in the others.
FirstRequest ==
    LET p == Head(actCall.todo)
    IN  IF p.prim = "fill_text" THEN Request("clear", "", "fill")
        ELSE Request(BrowserAction(p.prim), "", "next")

ActDo ==
    /\ actCall.step = "act"
    /\ FirstRequest
    /\ UNCHANGED actConfig
    /\ UNCHANGED notAct

\* fill_text: element.fill(text)
ActFill ==
    /\ actCall.step = "fill"
    /\ Request("fill", Head(actCall.todo).text, "next")
    /\ UNCHANGED actConfig
    /\ UNCHANGED notAct

\* The application changes the element the call is about, after the call's
\* first wait.
ActPageChange ==
    /\ actCall.op # "none" /\ actLog # <<>>
    /\ LET sel == Head(actCall.todo).sel
       IN  /\ sel \in DOMAIN actDom
           /\ \E e \in ActStates : e # actDom[sel] /\ actDom' = [actDom EXCEPT ![sel] = e]
    /\ UNCHANGED <<actConfig, actCall, actLog, actOut>>
    /\ UNCHANGED notAct

NextAct ==
    \/ BeginAct
    \/ ActWait
    \/ ActDo
    \/ ActFill
    \/ ActPageChange

(***************************************************************************)
(* Native dialogs: BasePage.accept_alert.                                  *)
(***************************************************************************)
DialogTypes == {"alert", "confirm"}

InitDialog ==
    /\ handlers = 0
    /\ dialogs = <<>>

\* accept_alert(): self.page.on("dialog", lambda dialog: dialog.accept())
\* adds one more listener; page.on listeners stay until they are removed.
AcceptAlert ==
    /\ handlers < MaxAlertCalls
    /\ handlers' = handlers + 1
    /\ UNCHANGED dialogs
    /\ UNCHANGED notDialog

\* The page opens a dialog: every registered listener is called with it and
\* calls dialog.accept(); with no listener playwright dismisses the dialog.
DialogAppears ==
    /\ Len(dialogs) < MaxDialogs
    /\ \E type \in DialogTypes :
          dialogs' = Append(dialogs, [type |-> type, acceptCalls |-> handlers,
                                      accepted |-> handlers > 0,
                                      dismissed |-> handlers = 0])
    /\ UNCHANGED handlers
    /\ UNCHANGED notDialog

NextDialog ==
    \/ AcceptAlert
    \/ DialogAppears

(***************************************************************************)
(* The item names of the cart: CartPage.get_cart_item_names.               *)
(***************************************************************************)
CartNameTexts == {<<"a">>, NoText}

CartNameLists == UNION {[1..n -> CartNameTexts] : n \in 0..MaxCartItems}

\* get_cart_item_names leaving out the items whose name node has no text.
RECURSIVE get_cart_item_names_SkipEmpty(_)
get_cart_item_names_SkipEmpty(texts) ==
    IF Len(texts) = 0 THEN <<>>
    ELSE (IF Head(texts) = NoText THEN <<>> ELSE <<Head(texts)>>)
            \o get_cart_item_names_SkipEmpty(Tail(texts))

\* get_cart_item_names: element.text_content() or "" for every name node.
get_cart_item_names(texts) == [i \in 1..Len(texts) |-> TextOrEmpty(texts[i])]

NoNamesOut == [op |-> "none", val |-> <<>>, page |-> <<>>, afterChange |-> FALSE]

InitNames ==
    /\ cartNames \in CartNameLists
    /\ namesOut = NoNamesOut
    /\ namesPrev = NoNamesOut
    /\ namesMutated = FALSE

\* A test calls get_cart_item_names(): the page is read, nothing is written.
GetCartItemNames ==
    /\ namesOut' = [op |-> "get_cart_item_names", val |-> get_cart_item_names(cartNames),
                    page |-> cartNames, afterChange |-> namesMutated]
    /\ namesPrev' = namesOut
    /\ namesMutated' = FALSE
    /\ UNCHANGED cartNames
    /\ UNCHANGED notNames

\* The cart changes: an item is added at the end, or an item is removed.
CartMutation ==
    /\ \/ /\ Len(cartNames) < MaxCartItems
          /\ \E t \in CartNameTexts : cartNames' = Append(cartNames, t)
       \/ \E i \in 1..Len(cartNames) :
             cartNames' = SubSeq(cartNames, 1, i - 1) \o SubSeq(cartNames, i + 1, Len(cartNames))
    /\ namesMutated' = TRUE
    /\ UNCHANGED <<namesOut, namesPrev>>
    /\ UNCHANGED notNames

NextNames ==
    \/ GetCartItemNames
    \/ CartMutation

(***************************************************************************)
(* The specifications.  Each lets one part of the program run and holds    *)
(* the rest still.                                                         *)
(***************************************************************************)
ConfigStill ==
    /\ environ = CHOOSE e \in EnvValues : TimeoutValid(e) /\ e.TIMEOUT = "unset"
    /\ _config = None
    /\ dirs = {}
    /\ blocked = {}
    /\ pc = [w \in Workers |-> "idle"]
    /\ call = [w \in Workers |-> NoCall]
    /\ out = [w \in Workers |-> NoOut]
    /\ constructed = 0
    /\ envReads = 0
    /\ returned = {}
    /\ calls = 0

PageStill ==
    /\ dom = [s \in PageSelectors |-> Absent]
    /\ ptimeout = 30000
    /\ pcall = NoPageCall
    /\ pout = NoPageOut
    /\ pchanged = FALSE

IdStill ==
    /\ product = <<>>
    /\ controls = {}
    /\ idOut = NoIdOut

SortStill ==
    /\ items = <<>>
    /\ sortedBy = "none"
    /\ sortOut = NoSortOut

CartStill ==
    /\ cartPrices = <<>>
    /\ cartQuantities = <<>>
    /\ cartOut = NoCartOut

ActStill ==
    /\ actConfig = None
    /\ actDom = <<>>
    /\ actCall = NoActCall
    /\ actLog = <<>>
    /\ actOut = NoActOut

DialogStill ==
    /\ handlers = 0
    /\ dialogs = <<>>

NamesStill ==
    /\ cartNames = <<>>
    /\ namesOut = NoNamesOut
    /\ namesPrev = NoNamesOut
    /\ namesMutated = FALSE

InitConfigOnly == InitConfig /\ PageStill /\ IdStill /\ SortStill /\ CartStill /\ ActStill /\ DialogStill /\ NamesStill

SpecConfig == InitConfigOnly /\ [][NextConfig]_vars

\* The threads start with the environment valid and nothing in the way of
\* the directories.
InitConfigThreads ==
    /\ InitConfigOnly
    /\ TimeoutValid(environ)
    /\ blocked = {}

SpecConfigThreads == InitConfigThreads /\ [][NextConfigThreads]_vars

InitPageOnly == InitPage /\ ConfigStill /\ IdStill /\ SortStill /\ CartStill /\ ActStill /\ DialogStill /\ NamesStill

SpecPage == InitPageOnly /\ [][NextPage]_vars

InitIdOnly == InitId /\ ConfigStill /\ PageStill /\ SortStill /\ CartStill /\ ActStill /\ DialogStill /\ NamesStill

SpecId == InitIdOnly /\ [][NextId]_vars

InitSortOnly == InitSort /\ ConfigStill /\ PageStill /\ IdStill /\ CartStill /\ ActStill /\ DialogStill /\ NamesStill

SpecSort == InitSortOnly /\ [][NextSort]_vars

InitCartOnly == InitCart /\ ConfigStill /\ PageStill /\ IdStill /\ SortStill /\ ActStill /\ DialogStill /\ NamesStill

SpecCart == InitCartOnly /\ [][NextCart]_vars

InitActOnly ==
    /\ InitAct /\ ConfigStill /\ PageStill /\ IdStill /\ SortStill /\ CartStill
    /\ DialogStill /\ NamesStill

SpecAct == InitActOnly /\ [][NextAct]_vars

InitDialogOnly ==
    /\ InitDialog /\ ConfigStill /\ PageStill /\ IdStill /\ SortStill /\ CartStill
    /\ ActStill /\ NamesStill

SpecDialog == InitDialogOnly /\ [][NextDialog]_vars

InitNamesOnly ==
    /\ InitNames /\ ConfigStill /\ PageStill /\ IdStill /\ SortStill /\ CartStill
    /\ ActStill /\ DialogStill

SpecNames == InitNamesOnly /\ [][NextNames]_vars

(***************************************************************************)
(* Claims about framework/config.py, checked under SpecConfig.             *)
(***************************************************************************)

\* C1: get_config is idempotent over a sequence of calls: at most one Config
\* is ever constructed, every call that returns hands out that one instance
\* (the global), and once the global is set no step of any call constructs
\* another Config, reads the environment again or replaces the global.
C1_GetConfigIdempotent ==
    /\ [](/\ constructed <= 1
          /\ Cardinality(returned) <= 1
          /\ \A w \in Workers : out[w].kind = "ret" =>
                 out[w].cfg = _config /\ out[w].cfg.id = 1)
    /\ [][_config # None =>
             /\ _config' = _config
             /\ constructed' = constructed
             /\ envReads' = envReads]_vars

\* Two calls of get_config have returned, the second after the first.
C1_Witness ==
    /\ \A w \in Workers : out[w].kind = "ret" /\ out[w].fn = "get_config"
    /\ calls >= 2

\* C2: whenever a call of get_config has returned a Config, the allure
\* results, screenshots and videos directories and the parent directory of
\* the HTML report exist, also when an earlier call failed in os.makedirs.
C2_DirsExistOnReturn ==
    \A w \in Workers :
        (out[w].kind = "ret" /\ out[w].fn = "get_config") =>
            ConfigDirs(out[w].cfg) \subseteq dirs

\* The pair get_user_credentials is to return for a category, read off the
\* Config object: the category's own user name, the standard one for an
\* unknown category, and the standard password.
ExpectedCredentials(c, user_type) ==
    [ username |-> CASE user_type = "standard"    -> c.standard_user
                     [] user_type = "locked"      -> c.locked_user
                     [] user_type = "problem"     -> c.problem_user
                     [] user_type = "performance" -> c.performance_user
                     [] OTHER                     -> c.standard_user,
      password |-> c.standard_password ]

\* C3: get_user_credentials is a total lookup: a call that got its Config
\* returns the pair of its category, the standard pair for any other
\* category, and the lookup itself never raises (a call ends in an error
\* only when get_config raised).
C3_CredentialsTotal ==
    \A w \in Workers :
        out[w].fn = "get_user_credentials" =>
            /\ out[w].kind = "ret" =>
                   out[w].cred = ExpectedCredentials(out[w].cfg, out[w].user_type)
            /\ out[w].kind = "raise" =>
                   out[w].exc \in {"ValidationError", "OSError"} /\ out[w].cfg = None

\* A known and an unknown category have both been looked up.
C3_Witness ==
    /\ out["w1"].fn = "get_user_credentials" /\ out["w1"].kind = "ret"
    /\ out["w1"].user_type = "admin"
    /\ out["w2"].fn = "get_user_credentials" /\ out["w2"].kind = "ret"
    /\ out["w2"].user_type = "locked"
    /\ out["w2"].cred.username = "locked_out_user"

(***************************************************************************)
(* Claims about the page objects, checked under SpecPage.                  *)
(***************************************************************************)

\* The element becomes visible no later than t ms from now.
VisibleWithin(e, t) == e.delay # Never /\ e.delay <= t

\* C4: is_element_visible never raises: for every selector and every timeout
\* value it returns a boolean, True only when the element was visible within
\* the wait and True whenever it became visible within the (positive) wait;
\* every failure of the wait (timeout, nonexistent or malformed selector)
\* gives False.
C4_IsElementVisibleNeverRaises ==
    pout.op = "is_element_visible" =>
        LET t == Effective(pout.timeout, VisibleTimeout)
            seen == pout.sel # "bad[" /\ VisibleWithin(pout.snap, IF t > 0 THEN t ELSE 0)
        IN  /\ pout.kind = "ret"
            /\ pout.val \in BOOLEAN
            /\ pout.val => seen
            /\ (seen /\ t > 0) => pout.val

\* is_element_visible on a selector that matches nothing, with an override
\* timeout, has returned False.
C4_Witness ==
    /\ pout.op = "is_element_visible" /\ pout.sel = "#nonexistent"
    /\ pout.timeout = [given |-> TRUE, ms |-> 60000]
    /\ pout.kind = "ret" /\ pout.val = FALSE

\* C9: get_cart_badge_count of the cart page and of the inventory page
\* returns 0 when no badge is visible, 0 when the badge text does not parse
\* as an integer, and the integer shown otherwise (page unchanged during the
\* call).
C9_BadgeCount ==
    (pout.op \in {"inventory.get_cart_badge_count", "cart.get_cart_badge_count"}
       /\ ~pout.changed) =>
        LET text == TextOrEmpty(pout.snap.text)
        IN  /\ pout.kind = "ret"
            /\ pout.val = IF ~VisibleWithin(pout.snap, VisibleTimeout) THEN 0
                          ELSE IF IntParses(text) THEN IntValue(text)
                          ELSE 0

\* C10: get_error_message returns the empty string, and does not raise,
\* whenever its visibility check found no error banner; on a page that does
\* not change during the call it returns the banner's text when the banner
\* is (or becomes within the check's wait) visible and the empty string
\* otherwise.
C10_GetErrorMessage ==
    pout.op = "get_error_message" =>
        /\ pout.vis = "no" => (pout.kind = "ret" /\ pout.val = <<>>)
        /\ ~pout.changed =>
              /\ pout.kind = "ret"
              /\ pout.val = IF VisibleWithin(pout.snap, VisibleTimeout)
                            THEN TextOrEmpty(pout.snap.text) ELSE <<>>

\* get_error_message has returned "" on a page that shows no banner.
C10_Witness ==
    /\ pout.op = "get_error_message" /\ pout.snap = Absent
    /\ pout.kind = "ret" /\ pout.val = <<>>

(***************************************************************************)
(* Claims about the derived control identifiers, checked under SpecId.     *)
(***************************************************************************)

\* The identifier the shop gives the controls of a product, character by
\* character: letters in lower case, a hyphen for a blank, no apostrophe.
RECURSIVE ControlId(_)
ControlId(name) ==
    IF Len(name) = 0 THEN <<>>
    ELSE (CASE Head(name) = " " -> <<"-">>
            [] Head(name) = "'" -> <<>>
            [] OTHER -> <<LowerChar(Head(name))>>) \o ControlId(Tail(name))

\* The characters of t that are not in S.
RECURSIVE Without(_, _)
Without(t, S) ==
    IF Len(t) = 0 THEN <<>>
    ELSE (IF Head(t) \in S THEN <<>> ELSE <<Head(t)>>) \o Without(Tail(t), S)

\* C5: add_product_to_cart, remove_product_from_cart and is_product_in_cart
\* all target the identifier got from the name by lowercasing, a hyphen for
\* every blank and every apostrophe removed; "Sauce Labs Backpack" gives
\* sauce-labs-backpack and "Sauce Labs Bolt T-Shirt" sauce-labs-bolt-t-shirt.
C5_InventoryDerivation ==
    /\ idOut.op = "add_product_to_cart" =>
           idOut.target = AddToCartPrefix \o ControlId(idOut.name)
    /\ idOut.op \in {"remove_product_from_cart", "is_product_in_cart"} =>
           idOut.target = RemovePrefix \o ControlId(idOut.name)
    /\ (idOut.op \in {"remove_product_from_cart", "is_product_in_cart"}
          /\ idOut.name = SauceLabsBackpack) =>
           idOut.target = RemovePrefix \o <<"s", "a", "u", "c", "e", "-", "l", "a", "b", "s", "-", "b", "a", "c", "k", "p", "a", "c", "k">>
    /\ (idOut.op \in {"remove_product_from_cart", "is_product_in_cart"}
          /\ idOut.name = SauceLabsBoltTShirt) =>
           idOut.target = RemovePrefix \o <<"s", "a", "u", "c", "e", "-", "l", "a", "b", "s", "-", "b", "o", "l", "t", "-", "t", "-", "s", "h", "i", "r", "t">>

\* remove_product_from_cart has clicked the control of a name with a capital
\* letter, a blank and an apostrophe.
C5_Witness ==
    /\ idOut.op = "remove_product_from_cart"
    /\ idOut.name = <<"S", " ", "'">>
    /\ idOut.target = RemovePrefix \o <<"s", "-">>
    /\ idOut.kind = "ret"

\* C6: CartPage.remove_item_by_name targets the inventory page's remove
\* identifier (lowercase, blank to hyphen, apostrophe removed) with every
\* '.', '(' and ')' removed as well; so for a name with none of these three
\* characters both pages click the same remove control.
C6_CartSameAsInventory ==
    idOut.op = "remove_item_by_name" =>
        /\ idOut.target = RemovePrefix \o Without(ControlId(idOut.name), {".", "(", ")"})
        /\ (\A i \in 1..Len(idOut.name) : idOut.name[i] \notin {".", "(", ")"}) =>
               idOut.target = RemovePrefix \o RemoveTestId(idOut.name)

(***************************************************************************)
(* Claims about the product list, checked under SpecSort.                  *)
(***************************************************************************)

\* The verify call that matches a sort option: its method and the value of
\* ascending.
MatchingOp(token) ==
    IF token \in {"az", "za"} THEN "verify_products_sorted_alphabetically"
    ELSE "verify_products_sorted_by_price"

MatchingAscending(token) == token \in {"az", "lohi"}

\* The list is in the order the option last selected demands.
OrderedAsSelected ==
    /\ sortedBy \in SortTokens
    /\ sortedBy \in {"lohi", "hilo"} => PricesParse(items)
    /\ InOrder(items, sortedBy)

\* Two products of the list differ in what the option orders by.
TwoDiffer ==
    \E i, j \in 1..Len(items) :
        IF sortedBy \in {"az", "za"} THEN items[i].name # items[j].name
        ELSE FloatCents(StripDollar(items[i].price)) # FloatCents(StripDollar(items[j].price))

\* C7 as claimed: once the list is ordered as the selected option demands,
\* the matching verify call returns true and the same call with the inverse
\* value of ascending returns false.
C7_VerifyMatchesSort ==
    (OrderedAsSelected /\ sortOut.op = MatchingOp(sortedBy)) =>
        /\ sortOut.kind = "ret"
        /\ sortOut.val = (sortOut.ascending = MatchingAscending(sortedBy))

\* C7 as amended: the matching verify call returns true; the call with the
\* inverse value of ascending returns false exactly when two products of the
\* list differ in the key sorted by (it returns true for an empty list, a
\* single product and products that are all equal in the key).
C7_VerifyMatchesSortDistinct ==
    (OrderedAsSelected /\ sortOut.op = MatchingOp(sortedBy)) =>
        /\ sortOut.kind = "ret"
        /\ sortOut.ascending = MatchingAscending(sortedBy) => sortOut.val = TRUE
        /\ sortOut.ascending # MatchingAscending(sortedBy) => sortOut.val = ~TwoDiffer

\* After sorting by price, high to low, a list of three products of which
\* two differ in price, verify_products_sorted_by_price(True) returned false.
C7_Witness ==
    /\ OrderedAsSelected /\ sortedBy = "hilo" /\ Len(items) = 3 /\ TwoDiffer
    /\ sortOut.op = "verify_products_sorted_by_price"
    /\ sortOut.ascending = TRUE /\ sortOut.kind = "ret" /\ sortOut.val = FALSE

(***************************************************************************)
(* Claims about the line items of the cart, checked under SpecCart.        *)
(***************************************************************************)
Min(a, b) == IF a < b THEN a ELSE b

\* The positions that have both a price and a quantity.
Aligned == 1..Min(Len(cartPrices), Len(cartQuantities))

\* Every quantity text is read without an error and every price at an
\* aligned position is a number.
CartReadable ==
    /\ get_cart_item_quantities(cartQuantities).kind = "ret"
    /\ \A i \in Aligned : FloatParses(StripDollar(TextOrEmpty(cartPrices[i])))

\* The sum of price times quantity over the first n positions.
RECURSIVE SumAligned(_)
SumAligned(n) ==
    IF n = 0 THEN 0
    ELSE SumAligned(n - 1)
           + FloatCents(StripDollar(TextOrEmpty(cartPrices[n])))
               * get_cart_item_quantities(cartQuantities).val[n]

\* C8: where the quantities are read and the aligned prices are numbers,
\* calculate_total_price returns the sum of price times quantity over the
\* positions that have both; what the longer list has beyond them is
\* ignored, and a difference in length raises nothing.
C8_TotalOverAligned ==
    (cartOut.op = "calculate_total_price" /\ CartReadable) =>
        /\ cartOut.kind = "ret"
        /\ cartOut.val = SumAligned(Min(Len(cartPrices), Len(cartQuantities)))

\* Prices $29.99, $9.99 and a third that is no number, quantities 1 and 2:
\* calculate_total_price returned 49.97.
C8_Witness ==
    /\ cartPrices = <<<<"$", "2", "9", ".", "9", "9">>, <<"$", "9", ".", "9", "9">>, <<>> >>
    /\ cartQuantities = <<<<"1">>, <<"2">>>>
    /\ cartOut.op = "calculate_total_price" /\ cartOut.kind = "ret"
    /\ cartOut.val = 4997

(***************************************************************************)
(* Claims about what the page objects ask of the browser, checked under    *)
(* SpecAct.                                                                *)
(***************************************************************************)
WaitEvents == {"wait_for", "wait_for_load_state", "to_contain_text"}

IsRequest(e) == e.ev \notin WaitEvents

\* The requests to act on an element among the entries of a log.
Requests(log) == SelectSeq(log, IsRequest)

\* The call under way, or else the last call.
ActOp == IF actCall.op # "none" THEN actCall.op ELSE actOut.op
ActSel == IF actCall.op # "none" THEN actCall.sel ELSE actOut.sel

\* What C11 and its amendment share: the first thing asked of the browser
\* is the wait for the target to be visible, everything after it is a
\* request to act on the target, and a failed wait ends the call with the
\* wait's error and nothing more asked.
WaitsFirst ==
    (ActOp \in ActionPrims /\ actLog # <<>>) =>
        /\ actLog[1].ev = "wait_for" /\ actLog[1].sel = ActSel
        /\ \A i \in 2..Len(actLog) : IsRequest(actLog[i]) /\ actLog[i].sel = ActSel
        /\ ~actLog[1].ok =>
              /\ Len(actLog) = 1
              /\ actOut.kind = "raise" /\ actOut.exc \in {"TimeoutError", "Error"}

\* C11 as claimed: each of the five acting methods waits first for the
\* target to be visible, a failed wait propagates with nothing done to the
\* element, and a call that returns has performed exactly one browser
\* action.
C11_WaitThenOneAction ==
    /\ WaitsFirst
    /\ (actOut.op \in ActionPrims /\ actOut.kind = "ret") =>
          /\ Len(Requests(actLog)) = 1
          /\ Requests(actLog)[1].ev = BrowserAction(actOut.op)

\* C11 as amended: the same, except that fill_text performs two browser
\* actions on the element, clear and then fill; the other four perform
\* exactly one.
C11_WaitThenAction ==
    /\ WaitsFirst
    /\ (actOut.op \in ActionPrims /\ actOut.kind = "ret") =>
          LET r == Requests(actLog)
          IN  IF actOut.op = "fill_text"
              THEN Len(r) = 2 /\ r[1].ev = "clear" /\ r[2].ev = "fill" /\ r[2].text = actOut.text
              ELSE Len(r) = 1 /\ r[1].ev = BrowserAction(actOut.op)

\* fill_text returned after a wait, a clear and a fill.
C11_Witness ==
    /\ actOut.op = "fill_text" /\ actOut.kind = "ret"
    /\ Len(actLog) = 3 /\ actLog[1].ev = "wait_for" /\ actLog[1].ok
    /\ actLog[2].ev = "clear" /\ actLog[3].ev = "fill"

IsFillOrClick(e) == e.ev \in {"fill", "click"}

\* The fills and clicks asked of the browser, as <<method, selector, text>>.
FillsAndClicks(log) ==
    LET r == SelectSeq(log, IsFillOrClick)
    IN  [i \in 1..Len(r) |-> <<r[i].ev, r[i].sel, r[i].text>>]

IsPrefix(a, b) == Len(a) <= Len(b) /\ \A i \in 1..Len(a) : a[i] = b[i]

\* What login(username, password) is to ask of the browser.
LoginRequests(username, password) ==
    << <<"fill", USERNAME_INPUT, username>>, <<"fill", PASSWORD_INPUT, password>>,
       <<"click", LOGIN_BUTTON, "">> >>

ActCallNow == IF actCall.op # "none" THEN actCall ELSE actOut

\* C12: login fills the username field, then the password field, then
\* clicks the submit control, in that order and each once; the click is the
\* last thing it asks of the browser (no check of success follows) and it
\* returns nothing; once anything asked of the browser has failed, the
\* submit control is not clicked.
C12_LoginOrder ==
    ActCallNow.op = "login" =>
        LET expected == LoginRequests(ActCallNow.text, ActCallNow.password)
        IN  /\ IsPrefix(FillsAndClicks(actLog), expected)
            /\ \A i \in 1..Len(actLog) : actLog[i].ev = "click" => i = Len(actLog)
            /\ \A i \in 1..Len(actLog) :
                  ~actLog[i].ok => /\ i = Len(actLog)
                                   /\ actLog[i].ev # "click" =>
                                         \A j \in 1..Len(actLog) : actLog[j].ev # "click"
                                   /\ actOut.kind = "raise"
            /\ actOut.kind = "ret" =>
                  /\ FillsAndClicks(actLog) = expected
                  /\ \A i \in 1..Len(actLog) : actLog[i].ok
                  /\ actOut.val = "none"

\* login returned: two fills and the click, each behind its wait.
C12_Witness ==
    /\ actOut.op = "login" /\ actOut.kind = "ret"
    /\ Len(actLog) = 8 /\ actLog[8].ev = "click" /\ actLog[8].sel = LOGIN_BUTTON
    /\ actLog[3].ev = "fill" /\ actLog[3].text = "u"
    /\ actLog[6].ev = "fill" /\ actLog[6].text = "p"

\* C13 as claimed: every blocking wait passes the caller's override to the
\* browser when one is given and the configured timeout of the settings
\* otherwise.
C13_OverrideElseGlobal ==
    (ActCallNow.op \in WaitPrims /\ actLog # <<>>) =>
        actLog[1].ms = IF ActCallNow.timeout.given THEN ActCallNow.timeout.ms
                       ELSE actConfig.timeout

\* C13 as amended: every blocking wait passes the caller's override when
\* one other than 0 is given; with no override wait_for_element,
\* wait_for_page_load and wait_for_text pass the configured timeout of the
\* settings and is_element_visible passes 5000 ms.
C13_OverrideElseDefault ==
    (ActCallNow.op \in WaitPrims /\ actLog # <<>>) =>
        /\ (ActCallNow.timeout.given /\ ActCallNow.timeout.ms # 0) =>
              actLog[1].ms = ActCallNow.timeout.ms
        /\ ~ActCallNow.timeout.given =>
              actLog[1].ms = IF ActCallNow.op = "is_element_visible" THEN VisibleTimeout
                             ELSE actConfig.timeout

\* is_element_visible without an override waited 5000 ms for an element
\* that shows after 3000 ms, the configured timeout being 1000 ms.
C13_Witness ==
    /\ actOut.op = "is_element_visible" /\ ~actOut.timeout.given
    /\ actConfig.timeout = 1000
    /\ Len(actLog) = 1 /\ actLog[1].ev = "wait_for" /\ actLog[1].ms = VisibleTimeout
    /\ actOut.kind = "ret" /\ actOut.val = TRUE

(***************************************************************************)
(* Claims about native dialogs, checked under SpecDialog.                  *)
(***************************************************************************)

\* C14: the handler accept_alert registers is one-shot: the calls to
\* accept_alert made so far have accepted at most as many dialogs as there
\* were calls (a handler that accepted a dialog is gone for the next one),
\* and no dialog has accept() called on it more than once.
C14_OneShotHandler ==
    /\ Cardinality({i \in 1..Len(dialogs) : dialogs[i].accepted}) <= handlers
    /\ \A i \in 1..Len(dialogs) : dialogs[i].acceptCalls <= 1

(***************************************************************************)
(* Further claims about the queries of the page objects, checked under     *)
(* SpecPage.                                                               *)
(***************************************************************************)

\* C15: a query of a page object never ends in a not-found or timeout
\* failure, whatever the page shows and however the page changes between
\* the steps of the call.
C15_QueriesAbsorbTimeouts ==
    pout.op \in {"is_element_visible", "get_error_message",
                 "inventory.get_cart_badge_count", "cart.get_cart_badge_count"} =>
        ~(pout.kind = "raise" /\ pout.exc = "TimeoutError")

(***************************************************************************)
(* A further claim about the line items of the cart, checked under         *)
(* SpecCart.                                                               *)
(***************************************************************************)

\* C16: text of the page that is no number leads to a default and never to
\* an error: calculate_total_price and get_cart_item_quantities return,
\* whatever the price and quantity texts are.
C16_MalformedTextDefaults ==
    cartOut.op \in {"calculate_total_price", "get_cart_item_quantities"} =>
        cartOut.kind = "ret"

(***************************************************************************)
(* A claim about get_config called by several threads, checked under       *)
(* SpecConfigThreads.                                                      *)
(***************************************************************************)

\* C17: however the calls of the workers overlap, Config is constructed at
\* most once, every caller receives the same instance, and the instance a
\* caller received is the global with its fields as constructed.
C17_ConstructedOnce ==
    /\ constructed <= 1
    /\ Cardinality(returned) <= 1
    /\ \A w \in Workers : out[w].kind = "ret" => out[w].cfg = _config

(***************************************************************************)
(* A claim about the item names of the cart, checked under SpecNames.      *)
(***************************************************************************)

\* C18: get_cart_item_names returns one entry per name node of the page, in
\* page order (the empty string for a node without text); two calls with
\* no change of the page between them return the same list; and a call
\* leaves the page and everything else but its own result unchanged.
C18_NamesIdempotent ==
    /\ [](namesOut.op = "get_cart_item_names" =>
            /\ Len(namesOut.val) = Len(namesOut.page)
            /\ \A i \in 1..Len(namesOut.page) :
                  namesOut.val[i] = IF namesOut.page[i] = NoText THEN <<>>
                                    ELSE namesOut.page[i]
            /\ (namesPrev.op = "get_cart_item_names" /\ ~namesOut.afterChange) =>
                  namesOut.val = namesPrev.val)
    /\ [][namesOut' # namesOut \/ namesPrev' # namesPrev =>
             /\ cartNames' = cartNames
             /\ UNCHANGED notNames]_vars

\* Two calls on a cart of three items, the second without a name text, with
\* no change of the page between them.
C18_Witness ==
    /\ namesOut.op = "get_cart_item_names" /\ namesPrev.op = "get_cart_item_names"
    /\ ~namesOut.afterChange
    /\ cartNames = << <<"a">>, NoText, <<"a">> >>
    /\ namesOut.val = << <<"a">>, <<>>, <<"a">> >>

(***************************************************************************)
(* A further claim about the product list, checked under SpecSort.         *)
(***************************************************************************)

\* No name of the list is followed by a smaller one (ascending), or by a
\* greater one (descending).
NamesInOrder(ascending) ==
    \A i \in 1..(Len(items) - 1) :
        IF ascending THEN ~StrLess(items[i + 1].name, items[i].name)
        ELSE ~StrLess(items[i].name, items[i + 1].name)

PriceOf(i) == FloatCents(StripDollar(items[i].price))

PricesInOrder(ascending) ==
    \A i \in 1..(Len(items) - 1) :
        IF ascending THEN PriceOf(i) <= PriceOf(i + 1) ELSE PriceOf(i) >= PriceOf(i + 1)

\* C19: verify_products_sorted_alphabetically(ascending) returns true
\* exactly when the displayed names are in lexicographic order, rising or
\* falling as ascending says, and verify_products_sorted_by_price(ascending),
\* the prices being numbers, exactly when the prices are in numeric order;
\* so both return true for the empty list, for a single product and, in
\* both directions, when all products are equal in the key.
C19_VerifyIsSortedness ==
    /\ sortOut.op = "verify_products_sorted_alphabetically" =>
          /\ sortOut.kind = "ret"
          /\ sortOut.val = NamesInOrder(sortOut.ascending)
          /\ (\A i, j \in 1..Len(items) : items[i].name = items[j].name) => sortOut.val
    /\ (sortOut.op = "verify_products_sorted_by_price" /\ PricesParse(items)) =>
          /\ sortOut.kind = "ret"
          /\ sortOut.val = PricesInOrder(sortOut.ascending)
          /\ (\A i, j \in 1..Len(items) : PriceOf(i) = PriceOf(j)) => sortOut.val

\* verify_products_sorted_by_price(False) returned true for three products
\* of one price and different names.
C19_Witness ==
    /\ Len(items) = 3 /\ PricesParse(items)
    /\ \A i, j \in 1..3 : PriceOf(i) = PriceOf(j)
    /\ items[1].name # items[2].name
    /\ sortOut.op = "verify_products_sorted_by_price" /\ ~sortOut.ascending
    /\ sortOut.kind = "ret" /\ sortOut.val = TRUE

(***************************************************************************)
(* A claim about the passwords, checked under SpecAct.                     *)
(***************************************************************************)

\* The user name each login_*_user method is to submit.
CategoryUser(op) ==
    CASE op = "login_standard_user" -> actConfig.standard_user
      [] op = "login_locked_user" -> actConfig.locked_user
      [] op = "login_problem_user" -> actConfig.problem_user

\* C20: for every category, known or not, get_user_credentials returns the
\* configured standard password; and login_standard_user, login_locked_user
\* and login_problem_user submit their own category's user name with that
\* same standard password.
C20_OnePassword ==
    /\ \A u \in UserTypes :
          /\ LookupCredentials(actConfig, u).kind = "ret"
          /\ LookupCredentials(actConfig, u).cred.password = actConfig.standard_password
    /\ ActCallNow.op \in {"login_standard_user", "login_locked_user", "login_problem_user"} =>
          LET expected == LoginRequests(CategoryUser(ActCallNow.op),
                                        actConfig.standard_password)
          IN  /\ IsPrefix(FillsAndClicks(actLog), expected)
              /\ actOut.kind = "ret" => FillsAndClicks(actLog) = expected

\* login_locked_user returned, having submitted locked_out_user with the
\* standard password the environment configured.
C20_Witness ==
    /\ actOut.op = "login_locked_user" /\ actOut.kind = "ret"
    /\ actConfig.standard_password = "alt_sauce"
    /\ FillsAndClicks(actLog) = LoginRequests("locked_out_user", "alt_sauce")

(***************************************************************************)
(* A claim about the override of 0, checked under SpecAct.                 *)
(***************************************************************************)

\* C21: a blocking wait called with an override of 0 passes to the browser
\* what it passes with no override: the configured timeout in
\* wait_for_element, wait_for_page_load and wait_for_text, 5000 ms in
\* is_element_visible; a positive override it passes unchanged.
C21_ZeroIsNoOverride ==
    (ActCallNow.op \in WaitPrims /\ actLog # <<>> /\ ActCallNow.timeout.given) =>
        /\ ActCallNow.timeout.ms = 0 =>
              actLog[1].ms = IF ActCallNow.op = "is_element_visible" THEN VisibleTimeout
                             ELSE actConfig.timeout
        /\ ActCallNow.timeout.ms > 0 => actLog[1].ms = ActCallNow.timeout.ms

\* wait_for_element with an override of 0 waited with the configured 30000
\* ms and so saw an element that shows after 3000 ms.
C21_Witness ==
    /\ actOut.op = "wait_for_element" /\ actOut.timeout.given /\ actOut.timeout.ms = 0
    /\ actConfig.timeout = 30000
    /\ Len(actLog) = 1 /\ actLog[1].ev = "wait_for" /\ actLog[1].ms = 30000 /\ actLog[1].ok
    /\ actOut.kind = "ret"

=============================================================================
